---- MODULE Spec2Model ----
(***************************************************************************)
(* RLOps training pipeline: the two orchestrators of src/App.tsx           *)
(*   "interval": lines 9-221, setInterval-driven, with DDPGSimulator        *)
(*               (src/services/rlEngine.ts);                                *)
(*   "loop":     lines 234-550, self-rescheduling trainingLoop, with        *)
(*               DDPGAgent (src/unnamed/part_002) and PointMass1DEnv        *)
(*               (src/unnamed/part_000).                                    *)
(*                                                                         *)
(* Real numbers are fixed point: epsilon in millionths, positions,         *)
(* velocities and rewards in thousandths, each product rounded to the      *)
(* nearest unit as the double arithmetic of the code rounds.               *)
(*                                                                         *)
(* Specifications:                                                         *)
(*   Spec          both orchestrators: commands, timers, ticks.  A stored   *)
(*                 transition is named by the step that produced it; the   *)
(*                 physics of a tick is checked in SpecEnv.                *)
(*   SpecReplay    the replay memories around batchSize and bufferSize.    *)
(*   SpecSchedule  the exploration schedule over the learning ticks.       *)
(*   SpecEnv       the environment: reset and step.                        *)
(*   SpecEpisode   whole ticks with the environment: action selection,     *)
(*                 step, store, terminal reset.                            *)
(*   SpecLearn     the parameters of the four networks through the         *)
(*                 learning phase, and the critic's learning targets.      *)
(*   SpecLoop      the self-rescheduling orchestrator with its             *)
(*                 environment: commands, timers, ticks split at the await.*)
(*   SpecAdvisory  the advisory call next to the orchestrators.            *)
(*                                                                         *)
(* A JavaScript task (a timer callback, a click handler) runs to           *)
(* completion, and the continuation of an `await` on an already resolved   *)
(* promise is a microtask: it runs before the next task.  trainStep and    *)
(* train are async functions without an inner await, so the promise they   *)
(* return is resolved when they return.                                    *)
(***************************************************************************)
EXTENDS Integers, Sequences, FiniteSets, TLC

\* ------------------------------------------------------------ constants
bufferSize == 10000
batchSize == 64
warmupStepsSim == 250
warmupStepsLoop == 300
epsilonInit == 1000000
epsilonMin == 50000
metricsKept == 200
metricsNeeded == 20
\* A loss computed by the optimizer (some real number); 0 is "no learning".
ComputedLoss == 1
\* A ref that holds the id of a timer that already fired or was cleared.
StaleId == -1

\* --------------------------------------------------------------- bounds
MaxSteps == 302
MaxTimers == 2
\* Component checks of the replay memory run to MaxOver stores either side
\* of batchSize and of bufferSize, with at most MaxTrains calls of train.
MaxOver == 3
MaxTrains == 3
\* The exploration schedule is followed for MaxDecays learning ticks.
MaxDecays == 1200
\* The environment is stepped MaxEpisode times from a reset.
MaxEpisode == 3
\* The parameters are followed through MaxLearns learning phases.
MaxLearns == 2

Variants == {"interval", "loop"}

VARIABLES
  variant,              \* which orchestrator is mounted
  pipelineActive,       \* pipeline.active (React state)
  isTrainingRef,        \* isTrainingRef.current (loop)
  startTimeouts,        \* pending setTimeout(..., 1000) callbacks (interval)
  intervals,            \* ids of live setInterval timers (interval)
  trainingIntervalRef,  \* trainingIntervalRef.current, 0 is null
  timeouts,             \* ids of pending setTimeout(trainingLoop, 16) (loop)
  loopTimeoutRef,       \* loopTimeoutRef.current, 0 is null
  microtasks,           \* continuations of ticks suspended at their await
  stepCount,            \* DDPGSimulator.stepCount / stepCountRef.current
  replayBuffer,         \* replayBuffer of the simulator / agent
  epsilon,              \* epsilon of the simulator / agent
  nets,                 \* writes to each network's parameters since construction
  metrics,              \* metrics (React state): the window given to the charts
  lastSample,           \* outcome of the last batch request
  lastCommand,          \* the last lifecycle command and the state it met
  simState,             \* PointMass1DEnv.state / the SimState handed to trainStep
  lastStep,             \* the last environment step: its input and its result
  episodeSteps,         \* environment steps followed since the last reset
  simStateRef,          \* simStateRef.current: the state the next tick observes
  lastExperience,       \* the transition stored last
  params,               \* parameter elements of the four networks
  learnTrace,           \* the parameters between the parts of the last learning phase
  lastTargets,          \* the critic targets of the last learning phase's batch
  isAnalyzing,          \* isAnalyzing (React state)
  aiAnalysis,           \* aiAnalysis (React state)
  advisory              \* the advisory call: where it is, how it ended

timerVars == <<startTimeouts, intervals, trainingIntervalRef, timeouts, loopTimeoutRef>>
lifeVars == <<pipelineActive, isTrainingRef>>
trainVars == <<stepCount, replayBuffer, epsilon, nets, lastSample>>
envVars == <<simState, lastStep, episodeSteps, simStateRef, lastExperience>>
paramVars == <<params, learnTrace, lastTargets>>
advisoryVars == <<isAnalyzing, aiAnalysis, advisory>>
vars == <<variant, pipelineActive, isTrainingRef, startTimeouts, intervals,
          trainingIntervalRef, timeouts, loopTimeoutRef, microtasks, stepCount,
          replayBuffer, epsilon, nets, metrics, lastSample, lastCommand,
          simState, lastStep, episodeSteps, simStateRef, lastExperience,
          params, learnTrace, lastTargets, isAnalyzing, aiAnalysis, advisory>>

\* ------------------------------------------------------------- helpers
Last(s) == s[Len(s)]

LastN(s, n) == IF Len(s) <= n THEN s ELSE SubSeq(s, Len(s) - n + 1, Len(s))

\* Rounded quotient of non-negative a by b > 0.
RoundDiv(a, b) == (2 * a + b) \div (2 * b)

\* A timer id no live timer has (ids are never reused while live; a ref to
\* a dead timer is kept as StaleId, so reuse of a dead id is not observable).
NewTimerId(live) == CHOOSE i \in 1..(Cardinality(live) + 1) : i \notin live

FreshNets == [actor |-> 0, critic |-> 0, targetActor |-> 0, targetCritic |-> 0]

NoSample == [requested |-> FALSE, ready |-> FALSE, batch |-> <<>>]

\* --------------------------------------------------------- environment
\* No step taken yet.
NoStep == [taken |-> FALSE]

\* No transition stored yet.
NoExperience == [stored |-> FALSE]

\* useRef<SimState>({ position: 0, velocity: 0, target: 0 })
simStateInit == [position |-> 0, velocity |-> 0, target |-> 0]

Abs(x) == IF x < 0 THEN -x ELSE x

Max(a, b) == IF a > b THEN a ELSE b

\* Quotient of a by b > 0, rounded to the nearest unit, either sign.
Rounded(a, b) == IF a < 0 THEN -RoundDiv(-a, b) ELSE RoundDiv(a, b)

\* Mutant of ResetDraws: the draws are not centred.
ResetDrawsWide == {0, 900, 1799}

\* The values (Math.random() - 0.5) * 1.8 is drawn from, in thousandths:
\* both ends of [-0.9, 0.9) and some values between.
ResetDraws == {-900, -200, 0, 20, 300, 899}

\* The actions the environment is stepped with, in thousandths.
Actions == {-1000, -500, 0, 500, 1000}

\* reset(): position and target drawn independently, velocity 0
resetStates ==
  {[position |-> p, velocity |-> 0, target |-> t] : p \in ResetDraws, t \in ResetDraws}

\* Mutant of baseReward: the sign of the distance penalty is lost.
baseRewardPositive(dist) == Max(-2000, dist)

\* Math.max(-2.0, -dist)
baseReward(dist) == Max(-2000, -dist)

\* Mutant of bonus: the proximity bonus needs a smaller distance than the
\* goal bonus, so the goal bonus can be awarded alone.
bonusGoalAlone(dist, v) ==
  IF v = "interval"
    THEN (IF dist < 10 THEN 500 ELSE 0) + (IF dist < 50 THEN 1000 ELSE 0)
    ELSE (IF dist < 15 THEN 300 ELSE 0) + (IF dist < 50 THEN 1500 ELSE 0)

\* The bonuses: +0.5 below 0.1 and +1.0 below 0.05 (simulator), +0.3 below
\* 0.15 and +1.5 below 0.05 (environment class).
bonus(dist, v) ==
  IF v = "interval"
    THEN (IF dist < 100 THEN 500 ELSE 0) + (IF dist < 50 THEN 1000 ELSE 0)
    ELSE (IF dist < 150 THEN 300 ELSE 0) + (IF dist < 50 THEN 1500 ELSE 0)

\* PointMass1DEnv.step(action) / the physics and reward of trainStep
stepEnv(st, action, v) ==
  LET newVelocity == Rounded(st.velocity * 92 + action * 10, 100)
      newPosition == st.position + newVelocity
      dist == Abs(st.target - newPosition)
  IN  [taken |-> TRUE,
       from |-> st,
       action |-> action,
       dist |-> dist,
       reward |-> baseReward(dist) + bonus(dist, v),
       done |-> (dist < 50 \/ Abs(newPosition) > 2800),
       nextState |-> [position |-> newPosition, velocity |-> newVelocity,
                      target |-> st.target]]

\* ---------------------------------------------------- action selection
Min(a, b) == IF a < b THEN a ELSE b

\* The actor's output for the state observed (tanh: within [-1, 1]), in
\* thousandths.
RawActs == {-1000, 1000}

\* The values of Math.random(), in [0, 1), in thousandths.
Randoms == {0, 999}

\* (Math.random() - 0.5) * 2
centred(rnd) == (rnd - 500) * 2

\* (Math.random() - 0.5) * 2 * epsilon, epsilon in millionths
noise(rnd, eps) == Rounded(centred(rnd) * eps, 1000000)

\* Mutant of clamp: the sum of actor output and noise is used as it is.
clampMissing(x) == x

\* Math.max(-1, Math.min(1, x))
clamp(x) == Max(-1000, Min(1000, x))

\* DDPGSimulator.trainStep, action selection: pure random before the
\* counter (already raised) reaches warmupSteps, actor output plus noise
\* from then on.
selectAction(step1, eps, rawAct, rnd) ==
  IF step1 < warmupStepsSim THEN centred(rnd) ELSE clamp(rawAct + noise(rnd, eps))

\* DDPGAgent.getAction(stateVector, true)
getAction(eps, rawAct, rnd) == clamp(rawAct + noise(rnd, eps))

\* The transition pushed to the replay memory: { s, a, r, ns, d }
experience(observed, e) ==
  [stored |-> TRUE, s |-> observed, a |-> e.action, r |-> e.reward,
   ns |-> e.nextState, d |-> e.done]

\* Mutant of terminalState: no state ends an episode.
terminalStateNever(ns) == FALSE

\* Mutant of terminalState: leaving the track is not seen.
terminalStateGoalOnly(ns) == Abs(ns.position - ns.target) < 50

\* The interval callback's own test: dist < 0.05 || outOfBounds
terminalState(ns) ==
  Abs(ns.position - ns.target) < 50 \/ Abs(ns.position) > 2800

\* ----------------------------------------------------- replay memory
\* Mutant of storeExperience: every other tick's transition is not stored.
storeExperienceEveryOther(buf, exp) ==
  IF exp % 2 = 0 THEN Append(buf, exp) ELSE buf

\* Mutant of storeExperience: a full memory drops the new transition.
storeExperienceDropsNewest(buf, exp) ==
  IF Len(buf) >= bufferSize THEN buf ELSE Append(buf, exp)

\* replayBuffer.push(exp); if (length > bufferSize) shift()
storeExperience(buf, exp) ==
  LET pushed == Append(buf, exp)
  IN  IF Len(pushed) > bufferSize THEN Tail(pushed) ELSE pushed

\* The draws of Math.random() of one batch: draw i is index (seed * i) mod
\* length, for a seed of the set below (all the same entry, consecutive
\* entries, scattered entries).
Seeds == {0, 1, 7919}

\* batchSize entries, each replayBuffer[floor(random() * length)]
sampleBatch(buf, seed) ==
  [i \in 1..batchSize |-> buf[((seed * i) % Len(buf)) + 1]]

\* ------------------------------------------------ exploration schedule
\* epsilon *= epsilonDecay, 0.997 (simulator) and 0.9975 (agent)
decayed(eps, v) ==
  IF v = "interval" THEN RoundDiv(eps * 997, 1000) ELSE RoundDiv(eps * 399, 400)

\* if (epsilon > epsilonMin) epsilon *= epsilonDecay
decayEpsilon(eps, v) == IF eps > epsilonMin THEN decayed(eps, v) ELSE eps

\* Mutant of increment: the counter is raised twice in a tick.
incrementTwice(step) == step + 2

\* this.stepCount++ / stepCountRef.current++
increment(step) == step + 1

\* ---------------------------------------------------- learning phase
\* critic step, actor step, then updateTargetNetworks
learn(n) ==
  [actor |-> n.actor + 1, critic |-> n.critic + 1,
   targetActor |-> n.targetActor + 1, targetCritic |-> n.targetCritic + 1]

\* Mutant of simLearns: learning starts on the last warmup tick.
simLearnsAtWarmup(step, buf) == step >= warmupStepsSim /\ Len(buf) > batchSize

\* Mutant of simLearns: the warmup gate is missing.
simLearnsInWarmup(step, buf) == Len(buf) > batchSize

\* DDPGSimulator.trainStep, the learning-phase guard
simLearns(step, buf) == step > warmupStepsSim /\ Len(buf) > batchSize

\* DDPGSimulator.trainStep(currentState): everything it does to the
\* simulator, and the metric it resolves to.
trainStep(step, buf, eps, n, seed) ==
  LET step1 == increment(step)
      buf1 == storeExperience(buf, step1)
      go == simLearns(step1, buf1)
  IN  [stepCount |-> step1,
       replayBuffer |-> buf1,
       epsilon |-> IF go THEN decayEpsilon(eps, "interval") ELSE eps,
       nets |-> IF go THEN learn(n) ELSE n,
       sample |-> [requested |-> step1 > warmupStepsSim, ready |-> go,
                   batch |-> IF go THEN sampleBatch(buf1, seed) ELSE <<>>],
       metric |-> [step |-> step1,
                   criticLoss |-> IF go THEN ComputedLoss ELSE 0,
                   actorLoss |-> IF go THEN ComputedLoss ELSE 0]]

\* Mutant of agentReady: a memory of exactly batchSize is refused.
agentReadyAbove(buf) == Len(buf) > batchSize

\* DDPGAgent.train, the under-fill guard
agentReady(buf) == ~(Len(buf) < batchSize)

\* DDPGAgent.train(): everything it does to the agent, and its result.
train(buf, eps, n, seed) ==
  LET go == agentReady(buf)
  IN  [epsilon |-> IF go THEN decayEpsilon(eps, "loop") ELSE eps,
       nets |-> IF go THEN learn(n) ELSE n,
       sample |-> [requested |-> TRUE, ready |-> go,
                   batch |-> IF go THEN sampleBatch(buf, seed) ELSE <<>>],
       criticLoss |-> IF go THEN ComputedLoss ELSE 0,
       actorLoss |-> IF go THEN ComputedLoss ELSE 0]

\* setMetrics(prev => [...prev.slice(-200), metric])
setMetrics(prev, metric) == Append(LastN(prev, metricsKept), metric)

\* ------------------------------------------------------ the event loop
\* Mutant of TaskMayStart: the awaited work resolves in a later task, so
\* other tasks run while a tick is suspended.
TaskMayStartAnytime == TRUE

\* A task (timer callback, command handler) starts only when the microtask
\* queue is empty: the continuation of a tick's await runs first.
TaskMayStart == microtasks = <<>>

\* ------------------------------------------------------------ networks
\* One network's parameter elements at construction, in millionths (the
\* output layer is drawn from [-0.003, 0.003]).
ParamInits == {<<3000, -3000>>, <<0, 1500>>}

\* The constructor: targetActor.setWeights(actor.getWeights()) and
\* targetCritic.setWeights(critic.getWeights())
constructed(a, c) ==
  [actor |-> a, critic |-> c, targetActor |-> a, targetCritic |-> c]

\* No learning phase has run yet.
NoLearn == [ran |-> FALSE]

\* What one applyGradients changes a network's parameter elements by (the
\* clipped gradient through Adam: about the learning rate in size, or
\* nothing where the gradient is 0), in millionths.
AdamSteps == {<<0, 0>>, <<200, -100>>}

\* variable.assign(variable - step), element by element
applied(w, g) == [i \in DOMAIN w |-> w[i] - g[i]]

\* criticOptimizer.applyGradients(clippedCriticGrads): tf.variableGrads is
\* given no variable list, so it differentiates the critic loss with
\* respect to every trainable variable the loss is computed from: the
\* critic, and the target actor and target critic that produce targetQ.
criticUpdate(p, gCritic, gTargets) ==
  [p EXCEPT !.critic = applied(@, gCritic),
            !.targetActor = applied(@, gTargets),
            !.targetCritic = applied(@, gTargets)]

\* actorOptimizer.applyGradients(clippedActorGrads): the actor loss is
\* computed from the actor and the critic.
actorUpdate(p, gActor, gCritic) ==
  [p EXCEPT !.actor = applied(@, gActor), !.critic = applied(@, gCritic)]

\* w.mul(tau).add(targetWeights[i].mul(1 - tau)), tau = 0.005 = 1/200
softUpdate(w, t) == [i \in DOMAIN w |-> Rounded(w[i] + 199 * t[i], 200)]

\* Mutant of updateTargetNetworks: the targets are overwritten with the
\* online parameters.
updateTargetNetworksHard(p) ==
  [p EXCEPT !.targetActor = p.actor, !.targetCritic = p.critic]

\* updateTargetNetworks(): update(actor, targetActor); update(critic, targetCritic)
updateTargetNetworks(p) ==
  [p EXCEPT !.targetActor = softUpdate(p.actor, p.targetActor),
            !.targetCritic = softUpdate(p.critic, p.targetCritic)]

\* The learning phase on the parameters: critic update, actor update,
\* updateTargetNetworks, with the parameters after each part.
learningPhase(p, g) ==
  LET p1 == criticUpdate(p, g.critic, g.targets)
      p2 == actorUpdate(p1, g.actor, g.criticByActor)
      p3 == updateTargetNetworks(p2)
  IN  [ran |-> TRUE, before |-> p, afterCritic |-> p1, afterActor |-> p2,
       afterSync |-> p3]

\* The steps the two applyGradients of one learning phase can take.
PhaseSteps ==
  [critic : AdamSteps, targets : AdamSteps, actor : AdamSteps,
   criticByActor : AdamSteps]

\* ------------------------------------------------------- critic target
\* gamma = 0.99, in hundredths
gamma == 99

\* The states the sampled transitions were stepped from: two reset states
\* (one on its target) and one running at the right edge of the track.
SampledFrom ==
  {[position |-> 300, velocity |-> 0, target |-> -200],
   [position |-> 20, velocity |-> 0, target |-> 20],
   [position |-> 2741, velocity |-> 492, target |-> -900]}

\* The transitions of a batch, as the memory holds them: non-terminal
\* ones, ones that reached the goal, ones that left the track.
sampledTransitions(v) ==
  {experience(st, stepEnv(st, a, v)) : st \in SampledFrom, a \in {0, 1000}}

\* targetCritic.predict([nextStates, targetActor.predict(nextStates)]): the
\* values it gives for a next observation, in thousandths.
Predictions == {-1500, 0, 2300}

\* Mutant of terminals: no transition is marked terminal.
terminalsAllZero(d) == 0

\* batch.map(b => [b.d ? 1 : 0])
terminals(d) == IF d THEN 1 ELSE 0

\* rewards.add(nextQ.mul(gamma).mul(tf.scalar(1).sub(terminals))), for one
\* transition of the batch
targetQ(r, d, nextQ) == r + Rounded(nextQ * gamma * (1 - terminals(d)), 100)

\* The critic update's targets for a batch: each transition's reward,
\* terminal flag, target-critic value and learning target.
criticTargets(v) ==
  {[r |-> b.r, d |-> b.d, nextQ |-> q, targetQ |-> targetQ(b.r, b.d, q)] :
     b \in sampledTransitions(v), q \in Predictions}

\* The parameters are not followed: they stay as one construction left them.
ParamsIdle ==
  /\ params = constructed(<<3000, -3000>>, <<0, 1500>>)
  /\ learnTrace = NoLearn
  /\ lastTargets = {}

\* ------------------------------------------------------------ advisory
\* No advisory call was made yet.
NoAdvisory == [phase |-> "idle", failed |-> FALSE, outcome |-> "none"]

\* useState<string | null>(null), useState(false)
AdvisoryIdle ==
  /\ isAnalyzing = FALSE
  /\ aiAnalysis = "null"
  /\ advisory = NoAdvisory

\* ---------------------------------------------------------------- Init
\* After mount: useEffect has run initSimulator / initSystem.
Init ==
  /\ variant \in Variants
  /\ pipelineActive = FALSE
  /\ isTrainingRef = FALSE
  /\ startTimeouts = 0
  /\ intervals = {}
  /\ trainingIntervalRef = 0
  /\ timeouts = {}
  /\ loopTimeoutRef = 0
  /\ microtasks = <<>>
  /\ stepCount = 0
  /\ replayBuffer = <<>>
  /\ epsilon = epsilonInit
  /\ nets = FreshNets
  /\ metrics = <<>>
  /\ lastSample = NoSample
  /\ lastCommand = [cmd |-> "none", wasRunning |-> FALSE]
  /\ simState = simStateInit
  /\ lastStep = NoStep
  /\ episodeSteps = 0
  /\ simStateRef = simStateInit
  /\ lastExperience = NoExperience
  /\ ParamsIdle
  /\ AdvisoryIdle

\* ======================================================================
\* The interval orchestrator (App.tsx 9-221) over DDPGSimulator
\* ======================================================================

\* initSimulator: a new DDPGSimulator, setMetrics([])
initSimulator ==
  /\ stepCount' = 0
  /\ replayBuffer' = <<>>
  /\ epsilon' = epsilonInit
  /\ nets' = FreshNets
  /\ lastSample' = NoSample
  /\ metrics' = <<>>

\* startTraining: guarded by pipeline.active; arms setTimeout(..., 1000),
\* whose id is not kept.
startTrainingInterval ==
  /\ variant = "interval"
  /\ TaskMayStart
  /\ lastCommand' = [cmd |-> "start", wasRunning |-> pipelineActive]
  /\ IF pipelineActive
       THEN UNCHANGED <<pipelineActive, startTimeouts>>
       ELSE /\ startTimeouts + Cardinality(intervals) < MaxTimers
            /\ pipelineActive' = TRUE
            /\ startTimeouts' = startTimeouts + 1
  /\ UNCHANGED <<envVars, paramVars, advisoryVars, variant, isTrainingRef, intervals, trainingIntervalRef, timeouts,
                 loopTimeoutRef, microtasks, trainVars, metrics>>

\* The setTimeout callback: trainingIntervalRef.current = setInterval(..., 50)
startTimeoutFires ==
  /\ variant = "interval"
  /\ TaskMayStart
  /\ startTimeouts > 0
  /\ startTimeouts' = startTimeouts - 1
  /\ LET id == NewTimerId(intervals)
     IN  /\ intervals' = intervals \cup {id}
         /\ trainingIntervalRef' = id
  /\ UNCHANGED <<envVars, paramVars, advisoryVars, variant, lifeVars, timeouts, loopTimeoutRef, microtasks, trainVars,
                 metrics, lastCommand>>

\* The setInterval callback up to its await: trainStep runs to its return.
intervalFires ==
  /\ variant = "interval"
  /\ TaskMayStart
  /\ stepCount < MaxSteps
  /\ \E id \in intervals, seed \in Seeds :
       LET r == trainStep(stepCount, replayBuffer, epsilon, nets, seed)
       IN  /\ stepCount' = r.stepCount
           /\ replayBuffer' = r.replayBuffer
           /\ epsilon' = r.epsilon
           /\ nets' = r.nets
           /\ lastSample' = r.sample
           /\ microtasks' = Append(microtasks, [metric |-> r.metric])
  /\ UNCHANGED <<envVars, paramVars, advisoryVars, variant, lifeVars, timerVars, metrics, lastCommand>>

\* The setInterval callback after its await: publishes the metric.
intervalResumes ==
  /\ variant = "interval"
  /\ microtasks # <<>>
  /\ metrics' = setMetrics(metrics, Head(microtasks).metric)
  /\ microtasks' = Tail(microtasks)
  /\ UNCHANGED <<envVars, paramVars, advisoryVars, variant, lifeVars, timerVars, trainVars, lastCommand>>

\* stopTraining: clears the interval the ref names, if any.
stopInterval ==
  /\ intervals' = intervals \ {trainingIntervalRef}
  /\ trainingIntervalRef' = 0
  /\ pipelineActive' = FALSE

stopTrainingInterval ==
  /\ variant = "interval"
  /\ TaskMayStart
  /\ lastCommand' = [cmd |-> "stop", wasRunning |-> pipelineActive]
  /\ stopInterval
  /\ UNCHANGED <<envVars, paramVars, advisoryVars, variant, isTrainingRef, startTimeouts, timeouts, loopTimeoutRef,
                 microtasks, trainVars, metrics>>

\* handleReset: stopTraining(); initSimulator()
handleResetInterval ==
  /\ variant = "interval"
  /\ TaskMayStart
  /\ lastCommand' = [cmd |-> "reset", wasRunning |-> pipelineActive]
  /\ stopInterval
  /\ initSimulator
  /\ UNCHANGED <<envVars, paramVars, advisoryVars, variant, isTrainingRef, startTimeouts, timeouts, loopTimeoutRef,
                 microtasks>>

\* ======================================================================
\* The self-rescheduling orchestrator (App.tsx 234-550) over DDPGAgent
\* ======================================================================

\* initSystem: a new env and agent, setMetrics([]), stepCountRef.current = 0
initSystem ==
  /\ stepCount' = 0
  /\ replayBuffer' = <<>>
  /\ epsilon' = epsilonInit
  /\ nets' = FreshNets
  /\ lastSample' = NoSample
  /\ metrics' = <<>>

\* if (isTrainingRef.current) loopTimeoutRef.current = setTimeout(trainingLoop, 16)
reschedule(pend, ref) ==
  IF isTrainingRef'
    THEN LET id == NewTimerId(pend)
         IN  /\ timeouts' = pend \cup {id}
             /\ loopTimeoutRef' = id
    ELSE /\ timeouts' = pend
         /\ loopTimeoutRef' = ref

\* trainingLoop up to its await, or to its end on a tick that does not train.
\* pend and ref are the timers as the caller leaves them.
trainingLoop(pend, ref, seed) ==
  IF ~isTrainingRef'
    THEN /\ timeouts' = pend
         /\ loopTimeoutRef' = ref
         /\ UNCHANGED <<trainVars, metrics, microtasks>>
    ELSE LET step1 == increment(stepCount)
             buf1 == storeExperience(replayBuffer, step1)
         IN  /\ stepCount' = step1
             /\ replayBuffer' = buf1
             /\ IF step1 > warmupStepsLoop
                  THEN LET r == train(buf1, epsilon, nets, seed)
                       IN  /\ epsilon' = r.epsilon
                           /\ nets' = r.nets
                           /\ lastSample' = r.sample
                           /\ microtasks' = Append(microtasks,
                                [criticLoss |-> r.criticLoss, actorLoss |-> r.actorLoss])
                           /\ timeouts' = pend
                           /\ loopTimeoutRef' = ref
                           /\ UNCHANGED metrics
                  ELSE /\ lastSample' = NoSample
                       /\ metrics' = setMetrics(metrics,
                            [step |-> step1, criticLoss |-> 0, actorLoss |-> 0])
                       /\ reschedule(pend, ref)
                       /\ UNCHANGED <<epsilon, nets, microtasks>>

\* startTraining: guarded by isTrainingRef; calls trainingLoop() itself.
startTrainingLoop ==
  /\ variant = "loop"
  /\ TaskMayStart
  /\ lastCommand' = [cmd |-> "start", wasRunning |-> isTrainingRef]
  /\ IF isTrainingRef
       THEN UNCHANGED <<lifeVars, timeouts, loopTimeoutRef, trainVars, metrics, microtasks>>
       ELSE /\ stepCount < MaxSteps
            /\ pipelineActive' = TRUE
            /\ isTrainingRef' = TRUE
            /\ \E seed \in Seeds : trainingLoop(timeouts, loopTimeoutRef, seed)
  /\ UNCHANGED <<envVars, paramVars, advisoryVars, variant, startTimeouts, intervals, trainingIntervalRef>>

\* The setTimeout(trainingLoop, 16) callback.
timeoutFires ==
  /\ variant = "loop"
  /\ TaskMayStart
  /\ isTrainingRef => stepCount < MaxSteps
  /\ UNCHANGED lifeVars
  /\ \E id \in timeouts, seed \in Seeds :
       trainingLoop(timeouts \ {id},
                    IF loopTimeoutRef = id THEN StaleId ELSE loopTimeoutRef, seed)
  /\ UNCHANGED <<envVars, paramVars, advisoryVars, variant, startTimeouts, intervals, trainingIntervalRef, lastCommand>>

\* trainingLoop after its await: publishes the metric and reschedules.
loopResumes ==
  /\ variant = "loop"
  /\ microtasks # <<>>
  /\ UNCHANGED lifeVars
  /\ metrics' = setMetrics(metrics,
       [step |-> stepCount, criticLoss |-> Head(microtasks).criticLoss,
        actorLoss |-> Head(microtasks).actorLoss])
  /\ microtasks' = Tail(microtasks)
  /\ reschedule(timeouts, loopTimeoutRef)
  /\ UNCHANGED <<envVars, paramVars, advisoryVars, variant, startTimeouts, intervals, trainingIntervalRef, trainVars,
                 lastCommand>>

\* stopTraining: lowers the flag and clears the timeout the ref names, if any.
stopLoop ==
  /\ isTrainingRef' = FALSE
  /\ timeouts' = timeouts \ {loopTimeoutRef}
  /\ loopTimeoutRef' = 0
  /\ pipelineActive' = FALSE

stopTrainingLoop ==
  /\ variant = "loop"
  /\ TaskMayStart
  /\ lastCommand' = [cmd |-> "stop", wasRunning |-> isTrainingRef]
  /\ stopLoop
  /\ UNCHANGED <<envVars, paramVars, advisoryVars, variant, startTimeouts, intervals, trainingIntervalRef, microtasks,
                 trainVars, metrics>>

\* handleReset: stopTraining(); initSystem()
handleResetLoop ==
  /\ variant = "loop"
  /\ TaskMayStart
  /\ lastCommand' = [cmd |-> "reset", wasRunning |-> isTrainingRef]
  /\ stopLoop
  /\ initSystem
  /\ UNCHANGED <<envVars, paramVars, advisoryVars, variant, startTimeouts, intervals, trainingIntervalRef, microtasks>>

Next ==
  \/ startTrainingInterval
  \/ startTimeoutFires
  \/ intervalFires
  \/ intervalResumes
  \/ stopTrainingInterval
  \/ handleResetInterval
  \/ startTrainingLoop
  \/ timeoutFires
  \/ loopResumes
  \/ stopTrainingLoop
  \/ handleResetLoop

Spec == Init /\ [][Next]_vars

\* ======================================================================
\* Claims
\* ======================================================================

\* A step in which a tick begins (the only steps that raise the counter).
TickBegins == stepCount' > stepCount

\* The warmup length of the mounted orchestrator.
Warmup == IF variant = "interval" THEN warmupStepsSim ELSE warmupStepsLoop

\* The losses of the tick that ran last: still held by its suspended
\* continuation, or already published.
TickLosses ==
  IF microtasks # <<>>
    THEN IF variant = "interval"
           THEN <<Last(microtasks).metric.criticLoss, Last(microtasks).metric.actorLoss>>
           ELSE <<Last(microtasks).criticLoss, Last(microtasks).actorLoss>>
    ELSE <<Last(metrics).criticLoss, Last(metrics).actorLoss>>

\* C1: once stop was issued while RUNNING, the orchestrator is IDLE and no
\* tick begins until the next command.
C1_NoTickAfterStop ==
  [][(lastCommand'.cmd = "stop" /\ lastCommand'.wasRunning)
       => (~pipelineActive' /\ ~isTrainingRef' /\ ~TickBegins)]_vars

\* C2: a tick begins only when no earlier tick is still suspended before
\* its commit, under every interleaving of commands and timers.
C2_TicksDoNotOverlap ==
  [][TickBegins => (microtasks = <<>> /\ Len(microtasks') <= 1)]_vars

\* C2 witness: a tick is suspended at its await while two timers are live.
C2_Witness ==
  /\ Len(microtasks) = 1
  /\ Cardinality(intervals) = 2

\* C3: start while RUNNING and stop while IDLE change nothing of the
\* orchestrator (timers, flags, training state, metrics).
C3_CommandsIdempotent ==
  [][(((startTrainingInterval \/ startTrainingLoop) /\ pipelineActive)
        \/ ((stopTrainingInterval \/ stopTrainingLoop) /\ ~pipelineActive))
       => UNCHANGED <<timerVars, lifeVars, trainVars, metrics, microtasks>>]_vars

\* C4: from a reset until the next command the orchestrator is IDLE with
\* an empty replay memory, fresh networks, epsilon 1.0 and step counter 0
\* (so no tick has run).
C4_ResetState ==
  lastCommand.cmd = "reset"
    => /\ ~pipelineActive
       /\ ~isTrainingRef
       /\ replayBuffer = <<>>
       /\ nets = FreshNets
       /\ epsilon = epsilonInit
       /\ stepCount = 0

\* C8: every tick publishes one metric; the published steps run 1, 2, 3,
\* ... after a reset: each publication is one above the one before it (1
\* into an empty window), and a tick begins only when every earlier tick
\* of the run is published.
C8_MetricStream ==
  [][/\ metrics' # metrics /\ metrics' # <<>>
          => /\ Len(metrics') = Len(LastN(metrics, metricsKept)) + 1
             /\ Last(metrics').step = (IF metrics = <<>> THEN 1 ELSE Last(metrics).step + 1)
             /\ Last(metrics').step = stepCount'
     /\ TickBegins
          => /\ stepCount' = stepCount + 1
             /\ IF metrics = <<>> THEN stepCount = 0 ELSE Last(metrics).step = stepCount
    ]_vars

\* C8 witness: metrics were published across a stop and a second start.
C8_Witness ==
  /\ Len(metrics) >= 3
  /\ Last(metrics).step = stepCount
  /\ lastCommand = [cmd |-> "start", wasRunning |-> FALSE]
  /\ microtasks = <<>>
  /\ metrics[1].step = 1

\* C9: a tick within warmup (or on under-filled memory) reports zero
\* losses, leaves networks and epsilon alone, stores its transition and
\* raises the step counter by one.
C9_NoLearningTick ==
  [][(TickBegins /\ (stepCount' <= Warmup \/ Len(replayBuffer') < batchSize))
       => /\ TickLosses' = <<0, 0>>
          /\ nets' = nets
          /\ epsilon' = epsilon
          /\ Len(replayBuffer') = Len(replayBuffer) + 1
          /\ Last(replayBuffer') = stepCount'
          /\ stepCount' = stepCount + 1]_vars

\* C9 witness: the last warmup tick has run, nothing learnt.
C9_Witness ==
  /\ stepCount = Warmup
  /\ Len(replayBuffer) = Warmup
  /\ nets = FreshNets
  /\ metrics # <<>>
  /\ Last(metrics).step = Warmup

\* C16: the metrics window never holds more than 200 entries, and holds
\* the most recent ticks' metrics in step order.
C16_MetricsWindow ==
  /\ Len(metrics) <= metricsKept
  /\ \A i \in 1..(Len(metrics) - 1) : metrics[i + 1].step = metrics[i].step + 1
  /\ (metrics # <<>> /\ microtasks = <<>>) => Last(metrics).step = stepCount

\* C18: at most one tick chain is live: at most one pending start or live
\* interval, at most one pending next-tick timeout, and no next-tick
\* timeout while a tick of the self-rescheduling loop is suspended.
C18_OneTickChain ==
  /\ startTimeouts + Cardinality(intervals) <= 1
  /\ Cardinality(timeouts) <= 1
  /\ (variant = "loop" /\ microtasks # <<>>) => timeouts = {}

\* The second value is the first after one decay, to the nearest unit.
DecayedOnce(eps, eps1) ==
  IF variant = "interval" THEN Abs(1000 * eps1 - 997 * eps) <= 500
                          ELSE Abs(400 * eps1 - 399 * eps) <= 200

\* C19: a tick runs the learning phase exactly when the counter it has
\* raised exceeds warmupSteps; epsilon changes only on such a tick, by one
\* decay (or on a reset, back to 1.0), so it is 1.0 as long as the counter
\* has not passed warmupSteps.
C19_LearningGate ==
  [][/\ TickBegins
          => /\ lastSample'.ready <=> stepCount' > Warmup
             /\ nets'.actor = nets.actor + (IF stepCount' > Warmup THEN 1 ELSE 0)
             /\ IF stepCount' > Warmup THEN DecayedOnce(epsilon, epsilon')
                                       ELSE epsilon' = epsilon
     /\ ~TickBegins => (epsilon' = epsilon \/ epsilon' = epsilonInit)
     /\ stepCount' <= Warmup => epsilon' = epsilonInit
    ]_vars

\* C19 witness: two ticks past warmup have learnt and decayed epsilon twice.
C19_Witness ==
  /\ stepCount = Warmup + 2
  /\ nets.actor = 2
  /\ epsilon < epsilonInit
  /\ (IF variant = "interval" THEN epsilon = 994009 ELSE epsilon = 995006)

\* ======================================================================
\* Components on their own: the simulator and the agent driven through
\* their public methods, without the orchestrator's timers.
\* ======================================================================

\* Nothing of the orchestrator is running.
Unmounted ==
  /\ pipelineActive = FALSE
  /\ isTrainingRef = FALSE
  /\ startTimeouts = 0
  /\ intervals = {}
  /\ trainingIntervalRef = 0
  /\ timeouts = {}
  /\ loopTimeoutRef = 0
  /\ microtasks = <<>>
  /\ metrics = <<>>
  /\ lastCommand = [cmd |-> "none", wasRunning |-> FALSE]
  /\ AdvisoryIdle

orchestratorVars == <<variant, lifeVars, timerVars, microtasks, metrics, lastCommand>>

\* Everything but the environment.
restVars == <<trainVars, orchestratorVars, paramVars, advisoryVars>>

\* The environment is not stepped.
EnvIdle ==
  /\ simState = simStateInit
  /\ lastStep = NoStep
  /\ episodeSteps = 0
  /\ simStateRef = simStateInit
  /\ lastExperience = NoExperience

RECURSIVE decayDoubled(_, _, _)
\* epsilon after 2^j learning updates (epsilon is positive: the test has
\* each value computed before the ones that follow from it)
decayDoubled(eps, v, j) ==
  IF j = 0 THEN decayEpsilon(eps, v)
  ELSE LET half == decayDoubled(eps, v, j - 1)
       IN  IF half > 0 THEN decayDoubled(half, v, j - 1) ELSE half

RECURSIVE decayBits(_, _, _, _)
\* epsilon after k * 2^j learning updates
decayBits(eps, v, k, j) ==
  IF k = 0 THEN eps
  ELSE LET low == IF k % 2 = 1 THEN decayDoubled(eps, v, j) ELSE eps
       IN  IF low > 0 THEN decayBits(low, v, k \div 2, j + 1) ELSE low

\* epsilon after k learning updates
decayTimes(eps, v, k) == decayBits(eps, v, k, 0)

\* The simulator after n calls of trainStep.
SimulatorAfter(n) ==
  LET k == IF n > warmupStepsSim THEN n - warmupStepsSim ELSE 0
  IN  /\ stepCount = n
      /\ replayBuffer = [i \in 1..n |-> i]
      /\ epsilon = decayTimes(epsilonInit, "interval", k)
      /\ nets = [actor |-> k, critic |-> k, targetActor |-> k, targetCritic |-> k]

\* The agent after n calls of storeExperience and none of train.
AgentAfter(n) ==
  /\ stepCount = n
  /\ replayBuffer = [i \in 1..n |-> i]
  /\ epsilon = epsilonInit
  /\ nets = FreshNets

\* DDPGSimulator.trainStep called once.
simulatorSteps(mayStep) ==
  /\ variant = "interval"
  /\ mayStep
  /\ \E seed \in Seeds :
       LET r == trainStep(stepCount, replayBuffer, epsilon, nets, seed)
       IN  /\ stepCount' = r.stepCount
           /\ replayBuffer' = r.replayBuffer
           /\ epsilon' = r.epsilon
           /\ nets' = r.nets
           /\ lastSample' = r.sample
  /\ UNCHANGED <<envVars, paramVars, advisoryVars, orchestratorVars>>

\* DDPGAgent.storeExperience called once, with the transition of the
\* caller's next step.
agentStores(mayStep) ==
  /\ variant = "loop"
  /\ mayStep
  /\ stepCount' = increment(stepCount)
  /\ replayBuffer' = storeExperience(replayBuffer, stepCount')
  /\ lastSample' = NoSample
  /\ UNCHANGED <<epsilon, nets, envVars, paramVars, advisoryVars, orchestratorVars>>

\* DDPGAgent.train called once.
agentTrains(mayTrain) ==
  /\ variant = "loop"
  /\ mayTrain
  /\ \E seed \in Seeds :
       LET r == train(replayBuffer, epsilon, nets, seed)
       IN  /\ epsilon' = r.epsilon
           /\ nets' = r.nets
           /\ lastSample' = r.sample
  /\ UNCHANGED <<stepCount, replayBuffer, envVars, paramVars, advisoryVars, orchestratorVars>>

\* ----------------------------------------------------- replay memory
InReplayWindow ==
  \/ stepCount < batchSize + MaxOver
  \/ stepCount >= bufferSize - MaxOver /\ stepCount < bufferSize + MaxOver

InitReplay ==
  /\ Unmounted
  /\ EnvIdle
  /\ ParamsIdle
  /\ variant \in Variants
  /\ lastSample = NoSample
  /\ \E n \in {0, bufferSize - MaxOver} :
       IF variant = "interval" THEN SimulatorAfter(n) ELSE AgentAfter(n)

NextReplay ==
  \/ simulatorSteps(InReplayWindow)
  \/ agentStores(InReplayWindow)
  \/ agentTrains(nets.actor < MaxTrains)

SpecReplay == InitReplay /\ [][NextReplay]_vars

\* ------------------------------------------------ exploration schedule
\* Both orchestrators at the end of warmup, then learning ticks only.
InitSchedule ==
  /\ Unmounted
  /\ EnvIdle
  /\ ParamsIdle
  /\ variant \in Variants
  /\ lastSample = NoSample
  /\ IF variant = "interval" THEN SimulatorAfter(warmupStepsSim)
                             ELSE AgentAfter(warmupStepsLoop)

\* A tick of trainingLoop past warmup, as far as the agent goes:
\* storeExperience, then train.
agentTicks(mayStep) ==
  /\ variant = "loop"
  /\ mayStep
  /\ stepCount' = increment(stepCount)
  /\ replayBuffer' = storeExperience(replayBuffer, stepCount')
  /\ \E seed \in Seeds :
       LET r == train(replayBuffer', epsilon, nets, seed)
       IN  /\ epsilon' = r.epsilon
           /\ nets' = r.nets
           /\ lastSample' = r.sample
  /\ UNCHANGED <<envVars, paramVars, advisoryVars, orchestratorVars>>

NextSchedule ==
  \/ simulatorSteps(stepCount < warmupStepsSim + MaxDecays)
  \/ agentTicks(stepCount < warmupStepsLoop + MaxDecays)

SpecSchedule == InitSchedule /\ [][NextSchedule]_vars

\* The entries of a sequence.
Range(s) == {s[i] : i \in 1..Len(s)}

\* C5: the replay memory never holds more than bufferSize (10,000)
\* transitions, and holds the newest ones in insertion order: after
\* bufferSize + k stores the oldest k are gone.
C5_FifoEviction ==
  /\ Len(replayBuffer) <= bufferSize
  /\ Len(replayBuffer) = (IF stepCount < bufferSize THEN stepCount ELSE bufferSize)
  /\ \A i \in 1..Len(replayBuffer) :
       replayBuffer[i] = stepCount - Len(replayBuffer) + i

\* C5 witness: two stores past capacity.
C5_Witness ==
  /\ stepCount = bufferSize + 2
  /\ Len(replayBuffer) = bufferSize
  /\ Head(replayBuffer) = 3
  /\ Last(replayBuffer) = bufferSize + 2

\* C6: a batch request on fewer than batchSize (64) transitions is
\* answered "not ready" with no learning; on batchSize or more it yields
\* exactly batchSize transitions of the memory.
C6_SampleReadiness ==
  lastSample.requested
    => IF Len(replayBuffer) < batchSize
         THEN ~lastSample.ready /\ lastSample.batch = <<>>
         ELSE /\ lastSample.ready
              /\ Len(lastSample.batch) = batchSize
              /\ Range(lastSample.batch) \subseteq Range(replayBuffer)

\* C6 witness: a batch drawn from a memory of exactly batchSize.
C6_Witness ==
  /\ lastSample.requested
  /\ Len(replayBuffer) = batchSize
  /\ Len(lastSample.batch) = batchSize

\* C7: epsilon never rises and never drops below its floor 0.05.
C7_EpsilonFloor ==
  [][epsilon' <= epsilon /\ epsilon' >= epsilonMin /\ epsilon' <= epsilonInit]_vars

\* --------------------------------------------------------- environment
\* The environment on its own: reset, then steps up to a terminal one.
InitEnv ==
  /\ Unmounted
  /\ ParamsIdle
  /\ simStateRef = simStateInit
  /\ lastExperience = NoExperience
  /\ variant \in Variants
  /\ AgentAfter(0)
  /\ lastSample = NoSample
  /\ simState \in resetStates
  /\ lastStep = NoStep
  /\ episodeSteps = 0

\* reset()
envResets ==
  /\ simState' \in resetStates
  /\ lastStep' = NoStep
  /\ episodeSteps' = 0
  /\ UNCHANGED <<simStateRef, lastExperience, restVars>>

\* step(action), not called on a terminal state: the caller resets first.
envSteps ==
  /\ lastStep.taken => ~lastStep.done
  /\ episodeSteps < MaxEpisode
  /\ episodeSteps' = episodeSteps + 1
  /\ \E action \in Actions :
       /\ lastStep' = stepEnv(simState, action, variant)
       /\ simState' = lastStep'.nextState
  /\ UNCHANGED <<simStateRef, lastExperience, restVars>>

NextEnv ==
  \/ envResets
  \/ envSteps

SpecEnv == InitEnv /\ [][NextEnv]_vars

\* The step of the scenario: from position 0.3, target -0.2, velocity 0,
\* with action 0.
C10_Scenario ==
  /\ lastStep.taken
  /\ lastStep.from = [position |-> 300, velocity |-> 0, target |-> -200]
  /\ lastStep.action = 0

\* C10 as stated: that step yields velocity 0, position 0.3, distance 0.5,
\* reward -2.0 and is not terminal.
C10_RewardClamped ==
  C10_Scenario
    => /\ lastStep.nextState.velocity = 0
       /\ lastStep.nextState.position = 300
       /\ lastStep.dist = 500
       /\ lastStep.reward = -2000
       /\ ~lastStep.done

\* C10 amended: that step yields velocity 0, position 0.3, distance 0.5,
\* reward -0.5 (the negative distance, above the clamp at -2.0) and is not
\* terminal; the environment's state is then the state returned.
C10_RewardIsNegativeDistance ==
  C10_Scenario
    => /\ lastStep.nextState.velocity = 0
       /\ lastStep.nextState.position = 300
       /\ lastStep.dist = 500
       /\ lastStep.reward = -500
       /\ ~lastStep.done
       /\ simState = lastStep.nextState

\* C10 witness: the scenario's step was taken right after a reset.
C10_Witness ==
  /\ C10_Scenario
  /\ episodeSteps = 1

\* ======================================================================
\* The networks' parameters through the learning phases of the simulator
\* and of the agent.
\* ======================================================================

InitLearn ==
  /\ Unmounted
  /\ EnvIdle
  /\ variant \in Variants
  /\ lastSample = NoSample
  /\ IF variant = "interval" THEN SimulatorAfter(warmupStepsSim)
                             ELSE AgentAfter(batchSize)
  /\ \E a \in ParamInits, c \in ParamInits : params = constructed(a, c)
  /\ learnTrace = NoLearn
  /\ lastTargets = {}

\* DDPGSimulator.trainStep called once, past warmup.
simulatorLearns ==
  /\ variant = "interval"
  /\ nets.actor < MaxLearns
  /\ \E seed \in Seeds, g \in PhaseSteps :
       LET r == trainStep(stepCount, replayBuffer, epsilon, nets, seed)
       IN  /\ r.sample.ready
           /\ stepCount' = r.stepCount
           /\ replayBuffer' = r.replayBuffer
           /\ epsilon' = r.epsilon
           /\ nets' = r.nets
           /\ lastSample' = r.sample
           /\ lastTargets' = criticTargets(variant)
           /\ learnTrace' = learningPhase(params, g)
           /\ params' = learnTrace'.afterSync
  /\ UNCHANGED <<envVars, advisoryVars, orchestratorVars>>

\* DDPGAgent.train called once, on a memory of batchSize or more.
agentLearns ==
  /\ variant = "loop"
  /\ nets.actor < MaxLearns
  /\ \E seed \in Seeds, g \in PhaseSteps :
       LET r == train(replayBuffer, epsilon, nets, seed)
       IN  /\ r.sample.ready
           /\ epsilon' = r.epsilon
           /\ nets' = r.nets
           /\ lastSample' = r.sample
           /\ lastTargets' = criticTargets(variant)
           /\ learnTrace' = learningPhase(params, g)
           /\ params' = learnTrace'.afterSync
  /\ UNCHANGED <<stepCount, replayBuffer, envVars, advisoryVars, orchestratorVars>>

NextLearn ==
  \/ simulatorLearns
  \/ agentLearns

SpecLearn == InitLearn /\ [][NextLearn]_vars

\* tau * online + (1 - tau) * old, tau = 0.005, to the nearest unit
IsSoftUpdate(new, online, old) ==
  \A i \in DOMAIN new : Abs(200 * new[i] - (online[i] + 199 * old[i])) <= 100

\* C14: the synchronization of a learning phase runs after the critic
\* update and the actor update, leaves the online parameters as those two
\* left them, and sets every element of each target to
\* tau * online + (1 - tau) * target_old, tau = 0.005, target_old being
\* the target as the synchronization finds it.
C14_SoftSync ==
  learnTrace.ran
    => /\ params = learnTrace.afterSync
       /\ learnTrace.afterSync.actor = learnTrace.afterActor.actor
       /\ learnTrace.afterSync.critic = learnTrace.afterActor.critic
       /\ IsSoftUpdate(learnTrace.afterSync.targetActor, learnTrace.afterActor.actor,
                       learnTrace.afterActor.targetActor)
       /\ IsSoftUpdate(learnTrace.afterSync.targetCritic, learnTrace.afterActor.critic,
                       learnTrace.afterActor.targetCritic)

\* C14 witness: both gradient updates moved the online parameters and the
\* synchronization moved both targets towards them.
C14_Witness ==
  /\ learnTrace.ran
  /\ learnTrace.afterActor.actor # learnTrace.before.actor
  /\ learnTrace.afterActor.critic # learnTrace.before.critic
  /\ learnTrace.afterSync.targetActor # learnTrace.afterActor.targetActor
  /\ learnTrace.afterSync.targetCritic # learnTrace.afterActor.targetCritic

\* C15: the targets equal their online networks at construction; the
\* gradient updates of a learning phase leave both targets as they were,
\* and the synchronization leaves both online networks as they were.
C15_TargetsOnlySynced ==
  /\ nets = FreshNets
       => params.targetActor = params.actor /\ params.targetCritic = params.critic
  /\ learnTrace.ran
       => /\ learnTrace.afterActor.targetActor = learnTrace.before.targetActor
          /\ learnTrace.afterActor.targetCritic = learnTrace.before.targetCritic
          /\ learnTrace.afterSync.actor = learnTrace.afterActor.actor
          /\ learnTrace.afterSync.critic = learnTrace.afterActor.critic

\* ======================================================================
\* The advisory call next to the orchestrators.
\* ======================================================================

\* The metrics window after n warmup ticks.
MetricsAfter(n) ==
  LET kept == Min(n, metricsKept + 1)
  IN  [i \in 1..kept |-> [step |-> n - kept + i, criticLoss |-> 0, actorLoss |-> 0]]

\* After mount, or after a run that was stopped one tick before the end of
\* warmup.
InitAdvisory ==
  /\ variant \in Variants
  /\ pipelineActive = FALSE
  /\ isTrainingRef = FALSE
  /\ startTimeouts = 0
  /\ intervals = {}
  /\ trainingIntervalRef = 0
  /\ timeouts = {}
  /\ loopTimeoutRef = 0
  /\ microtasks = <<>>
  /\ lastSample = NoSample
  /\ \E n \in {0, Warmup - 1} :
       /\ IF variant = "interval" THEN SimulatorAfter(n) ELSE AgentAfter(n)
       /\ metrics = MetricsAfter(n)
       /\ lastCommand = IF n = 0 THEN [cmd |-> "none", wasRunning |-> FALSE]
                                 ELSE [cmd |-> "stop", wasRunning |-> TRUE]
  /\ EnvIdle
  /\ ParamsIdle
  /\ AdvisoryIdle

\* handleAiAnalysis up to its await (the button is disabled while
\* isAnalyzing).  analyzeTrainingPerformance constructs the client before
\* its try block: if the constructor throws, the promise it returns is
\* rejected, so the await throws and the rest of the handler never runs.
handleAiAnalysis ==
  /\ TaskMayStart
  /\ ~isAnalyzing
  /\ IF Len(metrics) < metricsNeeded
       THEN UNCHANGED advisoryVars
       ELSE /\ isAnalyzing' = TRUE
            /\ aiAnalysis' = aiAnalysis
            /\ \E constructorThrows \in BOOLEAN :
                 advisory' =
                   IF constructorThrows
                     THEN [phase |-> "rejected", failed |-> TRUE, outcome |-> "rejected"]
                     ELSE [phase |-> "requested", failed |-> FALSE, outcome |-> "none"]
  /\ UNCHANGED <<variant, lifeVars, timerVars, microtasks, trainVars, metrics,
                 lastCommand, envVars, paramVars>>

\* generateContent settles and handleAiAnalysis resumes: the report, or
\* the fallback string of the catch block; setAiAnalysis, setIsAnalyzing(false)
advisoryReturns ==
  /\ TaskMayStart
  /\ advisory.phase = "requested"
  /\ \E requestFails \in BOOLEAN :
       LET analysis == IF requestFails THEN "fallback" ELSE "report"
       IN  /\ advisory' = [phase |-> "returned", failed |-> requestFails,
                           outcome |-> analysis]
           /\ aiAnalysis' = analysis
  /\ isAnalyzing' = FALSE
  /\ UNCHANGED <<variant, lifeVars, timerVars, microtasks, trainVars, metrics,
                 lastCommand, envVars, paramVars>>

\* The ticks followed: up to the first ones with metricsNeeded metrics,
\* and the ones around the end of warmup.
InAdvisoryWindow ==
  \/ stepCount' < metricsNeeded + MaxOver
  \/ stepCount' >= Warmup - 1 /\ stepCount' <= Warmup + MaxOver

NextAdvisory ==
  \/ startTrainingInterval /\ InAdvisoryWindow
  \/ startTimeoutFires /\ InAdvisoryWindow
  \/ intervalFires /\ InAdvisoryWindow
  \/ intervalResumes /\ InAdvisoryWindow
  \/ stopTrainingInterval /\ InAdvisoryWindow
  \/ handleResetInterval /\ InAdvisoryWindow
  \/ startTrainingLoop /\ InAdvisoryWindow
  \/ timeoutFires /\ InAdvisoryWindow
  \/ loopResumes /\ InAdvisoryWindow
  \/ stopTrainingLoop /\ InAdvisoryWindow
  \/ handleResetLoop /\ InAdvisoryWindow
  \/ handleAiAnalysis
  \/ advisoryReturns

SpecAdvisory == InitAdvisory /\ [][NextAdvisory]_vars

\* C17: a step of the advisory call changes nothing of the training loop
\* (flags, timers, suspended ticks, simulator or agent, metrics), ticks
\* begin while a call is in flight and after it failed, and every call
\* that failed, in the constructor or in the request, has returned the
\* fallback string.
C17_AdvisoryIsolated ==
  [][/\ advisory' # advisory
          => UNCHANGED <<lifeVars, timerVars, microtasks, trainVars, metrics>>
     /\ advisory'.phase # "idle" /\ advisory'.failed
          => /\ advisory'.phase = "returned"
             /\ advisory'.outcome = "fallback"
    ]_vars

\* C11: every step that ends closer than 0.05 to the target is terminal
\* and is rewarded the negative distance plus both bonuses (proximity 0.5
\* and goal 1.0 in the simulator, 0.3 and 1.5 in the environment class).
C11_GoalStep ==
  (lastStep.taken /\ lastStep.dist < 50)
    => /\ lastStep.done
       /\ lastStep.reward =
            -lastStep.dist + (IF variant = "interval" THEN 500 + 1000 ELSE 300 + 1500)

\* C11 witness: the step of the scenario (position 0.02, target 0,
\* velocity 0, action 0) was taken: the distance stays 0.02.
C11_Witness ==
  /\ lastStep.taken
  /\ lastStep.from = [position |-> 20, velocity |-> 0, target |-> 0]
  /\ lastStep.action = 0
  /\ lastStep.dist = 20
  /\ lastStep.done

\* ======================================================================
\* Episodes: whole ticks of both orchestrators, as far as the environment,
\* the simulator and the agent go.  A tick is one step here: nothing runs
\* between a tick's await and its continuation (TaskMayStart).
\* ======================================================================

RECURSIVE pushed(_, _, _)
\* The state after k more steps with action 1.0.
pushed(st, v, k) ==
  IF k = 0 THEN st ELSE pushed(stepEnv(st, 1000, v).nextState, v, k - 1)

\* States in the middle of an episode: six steps of action 1.0 from the
\* right end of the reset range, the target at the left end.
RunningStates(v) ==
  {pushed([position |-> 899, velocity |-> 0, target |-> -900], v, 6)}

\* The ends of the values drawn.
Lowest(S) == CHOOSE x \in S : \A y \in S : x <= y

Highest(S) == CHOOSE x \in S : \A y \in S : x >= y

\* The reset states the episodes are followed from: position at both ends
\* of the draws and next to the target, target at the lower end and at 0.
episodeStarts ==
  {st \in resetStates :
     /\ st.position \in {Lowest(ResetDraws), 20, Highest(ResetDraws)}
     /\ st.target \in {Lowest(ResetDraws), 0}}

\* The ticks followed: the first ones after construction, and the ones
\* around the end of warmup.
InEpisodeWindow ==
  /\ episodeSteps < MaxEpisode
  /\ \/ stepCount < MaxOver
     \/ stepCount >= Warmup - 1 /\ stepCount < Warmup + MaxOver

InitEpisode ==
  /\ Unmounted
  /\ ParamsIdle
  /\ variant \in Variants
  /\ lastSample = NoSample
  /\ \E n \in {0, Warmup - 1} :
       /\ IF variant = "interval" THEN SimulatorAfter(n) ELSE AgentAfter(n)
       /\ simStateRef \in (IF n = 0 THEN episodeStarts
                                   ELSE episodeStarts \cup RunningStates(variant))
  /\ simState = simStateRef
  /\ lastStep = NoStep
  /\ lastExperience = NoExperience
  /\ episodeSteps = 0

\* The setInterval callback (App.tsx 58-86): trainStep on
\* simStateRef.current, then the terminal test and the reset.
simulatorTick ==
  /\ variant = "interval"
  /\ InEpisodeWindow
  /\ \E rawAct \in RawActs, rnd \in Randoms, seed \in Seeds :
       LET action == selectAction(increment(stepCount), epsilon, rawAct, rnd)
           e == stepEnv(simStateRef, action, "interval")
           r == trainStep(stepCount, replayBuffer, epsilon, nets, seed)
       IN  /\ stepCount' = r.stepCount
           /\ replayBuffer' = r.replayBuffer
           /\ epsilon' = r.epsilon
           /\ nets' = r.nets
           /\ lastSample' = r.sample
           /\ lastStep' = e
           /\ lastExperience' = experience(simStateRef, e)
           /\ IF terminalState(e.nextState)
                THEN /\ simStateRef' \in episodeStarts
                     /\ episodeSteps' = 0
                ELSE /\ simStateRef' = e.nextState
                     /\ episodeSteps' = episodeSteps + 1
           /\ simState' = simStateRef'
  /\ UNCHANGED <<orchestratorVars, paramVars, advisoryVars>>

\* trainingLoop (App.tsx 282-342): getAction on simStateRef.current,
\* env.step on the environment's own state, storeExperience, train past
\* warmup, then the reset on done.
loopTick ==
  /\ variant = "loop"
  /\ InEpisodeWindow
  /\ \E rawAct \in RawActs, rnd \in Randoms, seed \in Seeds :
       LET step1 == increment(stepCount)
           action == getAction(epsilon, rawAct, rnd)
           e == stepEnv(simState, action, "loop")
           buf1 == storeExperience(replayBuffer, step1)
           r == train(buf1, epsilon, nets, seed)
       IN  /\ stepCount' = step1
           /\ replayBuffer' = buf1
           /\ IF step1 > warmupStepsLoop
                THEN /\ epsilon' = r.epsilon
                     /\ nets' = r.nets
                     /\ lastSample' = r.sample
                ELSE /\ lastSample' = NoSample
                     /\ UNCHANGED <<epsilon, nets>>
           /\ lastStep' = e
           /\ lastExperience' = experience(simStateRef, e)
           /\ IF e.done
                THEN /\ simState' \in episodeStarts
                     /\ episodeSteps' = 0
                ELSE /\ simState' = e.nextState
                     /\ episodeSteps' = episodeSteps + 1
           /\ simStateRef' = simState'
  /\ UNCHANGED <<orchestratorVars, paramVars, advisoryVars>>

\* initSimulator / initSystem, whole: new simulator or new agent and
\* environment, and simStateRef.current = reset()
resetsEpisode ==
  /\ IF variant = "interval" THEN initSimulator ELSE initSystem
  /\ simStateRef' \in episodeStarts
  /\ simState' = simStateRef'
  /\ lastStep' = NoStep
  /\ lastExperience' = NoExperience
  /\ episodeSteps' = 0
  /\ UNCHANGED <<variant, lifeVars, timerVars, microtasks, lastCommand, paramVars,
                 advisoryVars>>

NextEpisode ==
  \/ simulatorTick
  \/ loopTick
  \/ resetsEpisode

SpecEpisode == InitEpisode /\ [][NextEpisode]_vars

\* A step that is a whole tick.
Ticked == stepCount' = stepCount + 1

\* C12: the action of every tick, as passed to the environment step and
\* as stored in the transition, lies in [-1, 1], in the pure-random branch
\* and in the actor-plus-noise branch.
C12_ActionInRange ==
  (lastStep.taken /\ lastExperience.stored)
    => /\ lastStep.action >= -1000 /\ lastStep.action <= 1000
       /\ lastExperience.a = lastStep.action

\* C12 witness: the simulator, past warmup, took the action 1.0: the
\* actor's output 1.0 plus positive noise, clamped.
C12_Witness ==
  /\ variant = "interval"
  /\ stepCount > warmupStepsSim
  /\ lastStep.taken
  /\ lastStep.action = 1000
  /\ lastExperience.a = 1000

\* The state is one that reset() can return.
IsResetState(st) ==
  /\ st.velocity = 0
  /\ st.position >= -900 /\ st.position <= 900
  /\ st.target >= -900 /\ st.target <= 900

\* C13: every reset of the environment (at construction, on the reset
\* command, after a terminal step) leaves a state with velocity 0 and
\* position and target within [-0.9, 0.9], and the next tick observes and
\* steps from that state.
C13_ResetState ==
  [][/\ (stepCount' = 0 \/ (Ticked /\ lastStep'.done))
          => IsResetState(simStateRef') /\ simState' = simStateRef'
     /\ (stepCount = 0) => IsResetState(simStateRef) /\ simState = simStateRef
     /\ Ticked => /\ lastStep'.from = simStateRef
                  /\ lastExperience'.s = simStateRef
                  /\ simState = simStateRef
    ]_vars

\* C13 witness: a terminal step was followed by a reset to another state.
C13_Witness ==
  /\ lastStep.taken
  /\ lastStep.done
  /\ episodeSteps = 0
  /\ simStateRef # lastStep.nextState
  /\ IsResetState(simStateRef)

\* C20: a step is terminal exactly when it ends closer than 0.05 to the
\* target or further than 2.8 from the origin; a terminal tick ends with
\* the environment reset, and every tick steps from the state the tick
\* before it left (after a terminal tick: the reset state).
C20_TerminalReset ==
  [][Ticked
       => /\ lastStep'.done <=> (lastStep'.dist < 50
                                   \/ Abs(lastStep'.nextState.position) > 2800)
          /\ lastStep'.done => (episodeSteps' = 0 /\ IsResetState(simStateRef'))
          /\ ~lastStep'.done => simStateRef' = lastStep'.nextState
          /\ lastStep'.from = simStateRef
          /\ (lastStep.taken /\ lastStep.done) => episodeSteps = 0
    ]_vars

\* C20 witness: a tick left the track far from the target and the
\* environment was reset.
C20_Witness ==
  /\ lastStep.taken
  /\ lastStep.done
  /\ lastStep.dist >= 50
  /\ Abs(lastStep.nextState.position) > 2800
  /\ episodeSteps = 0
  /\ IsResetState(simStateRef)


\* C21: in the critic update, the learning target of every sampled
\* transition marked terminal is its reward alone, and of every other one
\* its reward plus 0.99 times the target critic's value of the next
\* observation with the target actor's action (to the nearest thousandth).
C21_CriticTarget ==
  \A t \in lastTargets :
    IF t.d THEN t.targetQ = t.r
           ELSE Abs(100 * (t.targetQ - t.r) - 99 * t.nextQ) <= 50

\* C21 witness: a learning phase whose batch held a terminal transition
\* and a non-terminal one, both with a target-critic value other than 0.
C21_Witness ==
  /\ learnTrace.ran
  /\ \E t \in lastTargets : t.d /\ t.nextQ # 0 /\ t.targetQ = t.r
  /\ \E t \in lastTargets : ~t.d /\ t.nextQ # 0 /\ t.targetQ # t.r


\* C22: after any number of ticks since the last reset the replay memory
\* holds exactly min(stepCount, bufferSize) transitions, one stored per
\* tick, so whenever the learning phase is invoked the memory holds at
\* least batchSize (64) of them and the batch request is never answered
\* "not ready".
C22_MemoryFilled ==
  /\ Len(replayBuffer) = Min(stepCount, bufferSize)
  /\ lastSample.requested
       => /\ stepCount > Warmup
          /\ Len(replayBuffer) >= batchSize
          /\ lastSample.ready

\* C22 witness: the learning phase was invoked by the first tick past
\* warmup, on a memory of as many transitions as ticks were run.
C22_Witness ==
  /\ lastSample.requested
  /\ lastSample.ready
  /\ stepCount = Warmup + 1
  /\ Len(replayBuffer) = stepCount


\* C23: under any sequence of ticks with actions in [-1, 1], the state a
\* tick steps from has |position| <= 2.8 and |velocity| <= 1.25, the step
\* gives velocity' = 0.92 * velocity + 0.1 * action (to the nearest
\* thousandth) and leaves the target as it was, and the target changes
\* only on an environment reset.
C23_TrackBounds ==
  [][/\ Ticked
          => /\ Abs(lastStep'.from.position) <= 2800
             /\ Abs(lastStep'.from.velocity) <= 1250
             /\ Abs(lastStep'.action) <= 1000
             /\ Abs(100 * lastStep'.nextState.velocity
                      - (92 * lastStep'.from.velocity + 10 * lastStep'.action)) <= 50
             /\ lastStep'.nextState.target = lastStep'.from.target
             /\ ~lastStep'.done => simState' = lastStep'.nextState
     /\ (simState'.target # simState.target \/ simStateRef'.target # simStateRef.target)
          => /\ stepCount' = 0 \/ (Ticked /\ lastStep'.done)
             /\ IsResetState(simStateRef')
    ]_vars

\* C23 witness: a tick stepped from a moving state next to the right edge
\* of the track, and left the track.
C23_Witness ==
  /\ lastStep.taken
  /\ lastStep.from.position > 2700
  /\ lastStep.from.velocity > 400
  /\ lastStep.nextState.position > 2800
  /\ lastStep.nextState.target = lastStep.from.target
  /\ lastStep.done


\* ======================================================================
\* The self-rescheduling orchestrator with its environment: the commands,
\* the timers and the ticks of App.tsx 234-550, each tick stepping the
\* PointMass1DEnv and split at its await.
\* ======================================================================

\* After mount, or after a run that was stopped one tick before the end of
\* warmup, between two episodes or in the middle of one.
InitLoop ==
  /\ variant = "loop"
  /\ pipelineActive = FALSE
  /\ isTrainingRef = FALSE
  /\ startTimeouts = 0
  /\ intervals = {}
  /\ trainingIntervalRef = 0
  /\ timeouts = {}
  /\ loopTimeoutRef = 0
  /\ microtasks = <<>>
  /\ lastSample = NoSample
  /\ ParamsIdle
  /\ AdvisoryIdle
  /\ \E n \in {0, warmupStepsLoop - 1} :
       /\ AgentAfter(n)
       /\ metrics = MetricsAfter(n)
       /\ lastCommand = IF n = 0 THEN [cmd |-> "none", wasRunning |-> FALSE]
                                 ELSE [cmd |-> "stop", wasRunning |-> TRUE]
       /\ simState \in (IF n = 0 THEN episodeStarts
                                 ELSE episodeStarts \cup RunningStates("loop"))
  /\ simStateRef = simState
  /\ lastStep = NoStep
  /\ lastExperience = NoExperience
  /\ episodeSteps = 0

\* The end of trainingLoop, on the reference and the environment:
\* simStateRef.current = nextState; if (done) simStateRef.current =
\* env.reset().  env is the environment the tick began with (own: it is
\* still envRef.current), envNow the state of envRef.current when the end
\* runs, steps the steps it has taken since its reset.
tickEnds(nextState, done, own, envNow, steps) ==
  IF done
    THEN \E fresh \in episodeStarts :
           /\ simStateRef' = fresh
           /\ simState' = IF own THEN fresh ELSE envNow
           /\ episodeSteps' = IF own THEN 0 ELSE steps
    ELSE /\ simStateRef' = nextState
         /\ simState' = envNow
         /\ episodeSteps' = steps

\* trainingLoop up to its await, or to its end on a tick that does not
\* train: the observation is taken from simStateRef.current, the step from
\* the environment's own state.  pend and ref are the timers as the caller
\* leaves them.
trainingLoopEnv(pend, ref) ==
  IF ~isTrainingRef'
    THEN /\ timeouts' = pend
         /\ loopTimeoutRef' = ref
         /\ UNCHANGED <<trainVars, metrics, microtasks, envVars>>
    ELSE \E rawAct \in RawActs, rnd \in Randoms, seed \in Seeds :
           LET step1 == increment(stepCount)
               action == getAction(epsilon, rawAct, rnd)
               e == stepEnv(simState, action, "loop")
               buf1 == storeExperience(replayBuffer, step1)
           IN  /\ stepCount' = step1
               /\ replayBuffer' = buf1
               /\ lastStep' = e
               /\ lastExperience' = experience(simStateRef, e)
               /\ IF step1 > warmupStepsLoop
                    THEN LET r == train(buf1, epsilon, nets, seed)
                         IN  /\ epsilon' = r.epsilon
                             /\ nets' = r.nets
                             /\ lastSample' = r.sample
                             /\ microtasks' = Append(microtasks,
                                  [criticLoss |-> r.criticLoss,
                                   actorLoss |-> r.actorLoss,
                                   nextState |-> e.nextState, done |-> e.done,
                                   env |-> "current"])
                             /\ simState' = e.nextState
                             /\ episodeSteps' = episodeSteps + 1
                             /\ timeouts' = pend
                             /\ loopTimeoutRef' = ref
                             /\ UNCHANGED <<metrics, simStateRef>>
                    ELSE /\ lastSample' = NoSample
                         /\ metrics' = setMetrics(metrics,
                              [step |-> step1, criticLoss |-> 0, actorLoss |-> 0])
                         /\ tickEnds(e.nextState, e.done, TRUE, e.nextState,
                                     episodeSteps + 1)
                         /\ reschedule(pend, ref)
                         /\ UNCHANGED <<epsilon, nets, microtasks>>

\* startTraining: guarded by isTrainingRef; calls trainingLoop() itself.
startTrainingLoopEnv ==
  /\ variant = "loop"
  /\ TaskMayStart
  /\ lastCommand' = [cmd |-> "start", wasRunning |-> isTrainingRef]
  /\ IF isTrainingRef
       THEN UNCHANGED <<lifeVars, timeouts, loopTimeoutRef, trainVars, metrics,
                        microtasks, envVars>>
       ELSE /\ InEpisodeWindow
            /\ pipelineActive' = TRUE
            /\ isTrainingRef' = TRUE
            /\ trainingLoopEnv(timeouts, loopTimeoutRef)
  /\ UNCHANGED <<paramVars, advisoryVars, variant, startTimeouts, intervals,
                 trainingIntervalRef>>

\* The setTimeout(trainingLoop, 16) callback.
timeoutFiresEnv ==
  /\ variant = "loop"
  /\ TaskMayStart
  /\ isTrainingRef => InEpisodeWindow
  /\ UNCHANGED lifeVars
  /\ \E id \in timeouts :
       trainingLoopEnv(timeouts \ {id},
                       IF loopTimeoutRef = id THEN StaleId ELSE loopTimeoutRef)
  /\ UNCHANGED <<paramVars, advisoryVars, variant, startTimeouts, intervals,
                 trainingIntervalRef, lastCommand>>

\* trainingLoop after its await: sets the reference, publishes the metric,
\* resets the environment on done and reschedules.
loopResumesEnv ==
  /\ variant = "loop"
  /\ microtasks # <<>>
  /\ UNCHANGED lifeVars
  /\ LET m == Head(microtasks)
     IN  /\ metrics' = setMetrics(metrics,
              [step |-> stepCount, criticLoss |-> m.criticLoss,
               actorLoss |-> m.actorLoss])
         /\ tickEnds(m.nextState, m.done, m.env = "current", simState, episodeSteps)
  /\ microtasks' = Tail(microtasks)
  /\ reschedule(timeouts, loopTimeoutRef)
  /\ UNCHANGED <<paramVars, advisoryVars, variant, startTimeouts, intervals,
                 trainingIntervalRef, trainVars, lastCommand, lastStep,
                 lastExperience>>

\* handleReset: stopTraining(); initSystem(), with the new environment and
\* simStateRef.current = envRef.current.reset().  A tick suspended at its
\* await keeps the environment it began with.
handleResetLoopEnv ==
  /\ variant = "loop"
  /\ TaskMayStart
  /\ lastCommand' = [cmd |-> "reset", wasRunning |-> isTrainingRef]
  /\ stopLoop
  /\ initSystem
  /\ simState' \in episodeStarts
  /\ simStateRef' = simState'
  /\ lastStep' = NoStep
  /\ lastExperience' = NoExperience
  /\ episodeSteps' = 0
  /\ microtasks' = [i \in DOMAIN microtasks |->
                      [microtasks[i] EXCEPT !.env = "replaced"]]
  /\ UNCHANGED <<paramVars, advisoryVars, variant, startTimeouts, intervals,
                 trainingIntervalRef>>

NextLoop ==
  \/ startTrainingLoopEnv
  \/ timeoutFiresEnv
  \/ loopResumesEnv
  \/ stopTrainingLoop
  \/ handleResetLoopEnv

SpecLoop == InitLoop /\ [][NextLoop]_vars

\* C24: in the self-rescheduling variant, at the start of every tick
\* simStateRef.current equals the environment's own state, so the
\* observation stored in the tick's transition is that of the state the
\* environment stepped from; start, stop and reset leave it so, whether or
\* not a tick is suspended in its learning phase.
C24_RefTracksEnv ==
  [][/\ Ticked
          => /\ simStateRef = simState
             /\ lastStep'.from = simState
             /\ lastExperience'.s = lastStep'.from
     /\ microtasks' = <<>> => simStateRef' = simState'
    ]_vars

\* C24 witness: a tick suspended in its learning phase that was begun by
\* a start command, after a stop, from the moving state an earlier tick
\* past warmup had left, and stored that state as its observation.
C24_Witness ==
  /\ microtasks # <<>>
  /\ stepCount > warmupStepsLoop + 1
  /\ lastCommand = [cmd |-> "start", wasRunning |-> FALSE]
  /\ lastStep.taken
  /\ lastStep.from.velocity # 0
  /\ lastExperience.s = lastStep.from
  /\ simState = lastStep.nextState

====
